---- MODULE Spec2Model ----
(***************************************************************************)
(* A model of the build_compile driver (src/lib.rs): the directory scan,   *)
(* the per-file rebuild decision, the remove / load / create / process /   *)
(* make_read_only sequence and the error reporting of                      *)
(* perform_processing_or_die, over a small file system.                    *)
(***************************************************************************)
EXTENDS Integers, Sequences, FiniteSets, TLC

VARIABLES
    fs,           \* the file system: path -> node
    platform,     \* the cfg the crate was built for: "unix", "windows", "other"
    pc,           \* position of the run
    root_dir,     \* argument of perform_processing
    extension,    \* argument of perform_processing
    force_build,  \* argument of perform_processing
    queue,        \* the rest of `files` in the for loop of perform_processing
    file,         \* the loop variable `file`
    input_file,   \* the FileText loaded for `file`
    error,        \* the Result perform_processing returns
    printed,      \* what the run has written to stdout
    status,       \* how the run ended
    log           \* the file-system and processor calls the run has made

vars == <<fs, platform, pc, root_dir, extension, force_build, queue, file,
          input_file, error, printed, status, log>>

---------------------------------------------------------------------------
(* Bounds *)

\* timestamps range over 0..MaxTime
MaxTime == 1

---------------------------------------------------------------------------
(* Paths.  A path is a sequence of names, a name is <<stem, extension>>;   *)
(* None stands for Path::extension() returning Option::None.               *)

None == "NONE"

Cwd == <<>>
DirD == << <<"d", None>> >>
FileA == << <<"a", "ext">> >>
FileB == << <<"d", None>>, <<"b", "ext">> >>

\* Path::with_extension
with_extension(path, ext) ==
    SubSeq(path, 1, Len(path) - 1) \o << <<path[Len(path)][1], ext>> >>

\* Path::extension
path_extension(path) == path[Len(path)][2]

RsA == with_extension(FileA, "rs")
RsB == with_extension(FileB, "rs")

Paths == {Cwd, DirD, FileA, RsA, FileB, RsB}
Platforms == {"unix", "windows", "other"}
Extensions == {"ext", "rs"}

Parent(path) == SubSeq(path, 1, Len(path) - 1)

---------------------------------------------------------------------------
(* File system nodes *)

Absent == [kind |-> "absent", mtime |-> 0, readonly |-> FALSE, content |-> ""]
Dir == [kind |-> "dir", mtime |-> 0, readonly |-> FALSE, content |-> ""]
File(m, ro, c) == [kind |-> "file", mtime |-> m, readonly |-> ro, content |-> c]

Exists(fsys, path) == path \in DOMAIN fsys /\ fsys[path].kind # "absent"

\* what the processor makes of an input
Transform(c) == IF c = "src" THEN "gen" ELSE "regen"

\* what a processor that fails may have written before failing
PartialOutputs == {"", "part"}

Times == 0..MaxTime

---------------------------------------------------------------------------
(* Results *)

NoError == [kind |-> "None", io |-> "", file |-> <<>>, cause |-> "", span |-> <<0, 0>>]
IoError(k) == [kind |-> "Io", io |-> k, file |-> <<>>, cause |-> "", span |-> <<0, 0>>]
SourceError(f, c, s) == [kind |-> "Source", io |-> "", file |-> f, cause |-> c, span |-> s]

Ok(v) == [ok |-> TRUE, val |-> v, err |-> ""]
Err(k) == [ok |-> FALSE, val |-> <<>>, err |-> k]

---------------------------------------------------------------------------
(* The file-system calls of std::fs the driver makes.  Each returns the    *)
(* io::Result and, where it writes, the file system after the call.  An    *)
(* `outcome` / `fault` argument is the environment's choice among the      *)
(* results the call can have in that file system.                          *)

Children(fsys, dir) ==
    {p \in DOMAIN fsys : Len(p) = Len(dir) + 1 /\ Parent(p) = dir /\ Exists(fsys, p)}

\* fs::metadata
metadata(fsys, path, fault) ==
    IF fault THEN Err("Other")
    ELSE IF ~Exists(fsys, path) THEN Err("NotFound")
    ELSE Ok(fsys[path])

\* the results fs::remove_file can have: a read-only file is removed on unix
\* and refused on windows; a missing file is NotFound, and off unix it may be
\* reported as PermissionDenied instead (lib.rs 94)
RemoveOutcomes(fsys, path, plat) ==
    IF ~Exists(fsys, path)
    THEN {"NotFound", "Other"} \cup (IF plat # "unix" THEN {"PermissionDenied"} ELSE {})
    ELSE IF fsys[path].kind # "file" THEN {"Other"}
    ELSE (IF fsys[path].readonly /\ plat = "windows" THEN {} ELSE {"Ok"})
         \cup (IF fsys[path].readonly /\ plat # "unix" THEN {"PermissionDenied"} ELSE {})
         \cup {"Other"}

\* fs::remove_file
remove_file(fsys, path, outcome) ==
    IF outcome = "Ok"
    THEN [res |-> Ok(<<>>), fs |-> [fsys EXCEPT ![path] = Absent]]
    ELSE [res |-> Err(outcome), fs |-> fsys]

\* the results fs::File::create can have
CreateOutcomes(fsys, path) ==
    IF ~Exists(fsys, Parent(path)) THEN {"NotFound"}
    ELSE IF Exists(fsys, path) /\ fsys[path].kind # "file" THEN {"Other"}
    ELSE IF Exists(fsys, path) /\ fsys[path].readonly THEN {"PermissionDenied"}
    ELSE {"Ok", "Other"}

\* fs::File::create: creates the file, or truncates the one there, at time t
file_create(fsys, path, outcome, t) ==
    IF outcome = "Ok"
    THEN [res |-> Ok(<<>>),
          fs |-> [fsys EXCEPT ![path] =
                     File(t, IF Exists(fsys, path) THEN fsys[path].readonly ELSE FALSE, "")]]
    ELSE [res |-> Err(outcome), fs |-> fsys]

\* Write::write on the created file, at time t
file_write(fsys, path, bytes, t) ==
    IF bytes = "" THEN fsys
    ELSE [fsys EXCEPT ![path] = File(t, fsys[path].readonly, bytes)]

\* fs::set_permissions
set_permissions(fsys, path, ro, fault) ==
    IF fault THEN [res |-> Err("Other"), fs |-> fsys]
    ELSE IF ~Exists(fsys, path) THEN [res |-> Err("NotFound"), fs |-> fsys]
    ELSE [res |-> Ok(<<>>), fs |-> [fsys EXCEPT ![path].readonly = ro]]

\* FileText::from_path: the path and the text of the file
FileText_from_path(fsys, path, fault) ==
    IF fault THEN Err("Other")
    ELSE IF ~Exists(fsys, path) THEN Err("NotFound")
    ELSE IF fsys[path].kind # "file" THEN Err("Other")
    ELSE Ok([path |-> path, text |-> fsys[path].content])

NoFileText == [path |-> <<>>, text |-> ""]

\* the lines of a text: the number of bytes of each line, its newline included
Lines(text) == IF text = "src" THEN <<4, 3, 5>> ELSE <<6>>

RECURSIVE line_col_from(_, _, _)
\* the position of a byte offset counted from the start of line k (from 1)
line_col_from(lens, k, offset) ==
    IF k >= Len(lens) \/ offset < lens[k] THEN <<k - 1, offset>>
    ELSE line_col_from(lens, k + 1, offset - lens[k])

\* FileText::line_col: the zero-based line and column of a byte offset
line_col(file_text, offset) == line_col_from(Lines(file_text.text), 1, offset)

---------------------------------------------------------------------------
(* files (lib.rs 154-175) *)

\* the paths at or below dir
Under(fsys, dir) ==
    {p \in DOMAIN fsys : Len(p) >= Len(dir) /\ SubSeq(p, 1, Len(dir)) = dir}

\* the directories at or below dir
DirsOf(fsys, dir) == {p \in Under(fsys, dir) : fsys[p].kind = "dir"}

NoScanFault == [read_dir |-> {}, entry |-> {}, file_type |-> {}]

\* the faults a scan of dir can meet: none, or one call failing on one path
ScanFaults(fsys, dir) ==
    LET there == {p \in Under(fsys, dir) : Exists(fsys, p)} IN
    {NoScanFault}
    \cup {[NoScanFault EXCEPT !.read_dir = {p}] : p \in DirsOf(fsys, dir)}
    \cup {[NoScanFault EXCEPT !.entry = {p}] : p \in there \ {dir}}
    \cup {[NoScanFault EXCEPT !.file_type = {p}] : p \in there \ {dir}}

RECURSIVE Perms(_)
\* the sequences that list each element of S once
Perms(S) ==
    IF S = {} THEN {<<>>}
    ELSE UNION {{<<x>> \o p : p \in Perms(S \ {x})} : x \in S}

RECURSIVE OrdersOver(_, _)
OrdersOver(fsys, dirs) ==
    IF dirs = {} THEN {<<>>}
    ELSE LET d == CHOOSE x \in dirs : TRUE IN
         {(d :> p) @@ o : p \in Perms(Children(fsys, d)), o \in OrdersOver(fsys, dirs \ {d})}

\* the orders in which fs::read_dir can enumerate each directory at or below dir
Orders(fsys, dir) == OrdersOver(fsys, DirsOf(fsys, dir))

RECURSIVE files(_, _, _, _, _)
RECURSIVE files_loop(_, _, _, _, _, _, _)

\* files_loop without the is_file test: a directory entry whose name has the
\* extension is pushed as well
files_loop_any_type(fsys, entries, i, result, ext, ord, faults) ==
    IF i > Len(entries) THEN Ok(result)
    ELSE LET path == entries[i] IN
         IF path \in faults.entry \/ path \in faults.file_type THEN Err("Other")
         ELSE LET sub == IF fsys[path].kind = "dir"
                         THEN files(fsys, path, ext, ord, faults)
                         ELSE Ok(<<>>)
              IN IF ~sub.ok THEN sub
                 ELSE LET extended == result \o sub.val
                          pushed == IF /\ path_extension(path) # None
                                       /\ path_extension(path) = ext
                                    THEN Append(extended, path)
                                    ELSE extended
                      IN files_loop(fsys, entries, i + 1, pushed, ext, ord, faults)

\* files_loop skipping what it cannot read: an entry that fails, or whose type
\* cannot be determined, is passed over, and so is a sub-directory whose scan
\* fails
files_loop_skip_errors(fsys, entries, i, result, ext, ord, faults) ==
    IF i > Len(entries) THEN Ok(result)
    ELSE LET path == entries[i] IN
         IF path \in faults.entry \/ path \in faults.file_type
         THEN files_loop(fsys, entries, i + 1, result, ext, ord, faults)
         ELSE LET sub == IF fsys[path].kind = "dir"
                         THEN files(fsys, path, ext, ord, faults)
                         ELSE Ok(<<>>)
                  extended == IF sub.ok THEN result \o sub.val ELSE result
                  pushed == IF /\ fsys[path].kind = "file"
                               /\ path_extension(path) # None
                               /\ path_extension(path) = ext
                            THEN Append(extended, path)
                            ELSE extended
              IN files_loop(fsys, entries, i + 1, pushed, ext, ord, faults)

\* the body of the for loop of files, from entry i on
files_loop(fsys, entries, i, result, ext, ord, faults) ==
    IF i > Len(entries) THEN Ok(result)
    ELSE LET path == entries[i] IN
         IF path \in faults.entry \/ path \in faults.file_type THEN Err("Other")
         ELSE LET sub == IF fsys[path].kind = "dir"
                         THEN files(fsys, path, ext, ord, faults)
                         ELSE Ok(<<>>)
              IN IF ~sub.ok THEN sub
                 ELSE LET extended == result \o sub.val
                          pushed == IF /\ fsys[path].kind = "file"
                                       /\ path_extension(path) # None
                                       /\ path_extension(path) = ext
                                    THEN Append(extended, path)
                                    ELSE extended
                      IN files_loop(fsys, entries, i + 1, pushed, ext, ord, faults)

files(fsys, dir, ext, ord, faults) ==
    IF dir \in faults.read_dir THEN Err("Other")
    ELSE IF ~Exists(fsys, dir) THEN Err("NotFound")
    ELSE IF fsys[dir].kind # "dir" THEN Err("Other")
    ELSE files_loop(fsys, ord[dir], 1, <<>>, ext, ord, faults)

---------------------------------------------------------------------------
(* needs_rebuild (lib.rs 103-145) *)

\* compare_modification_times with > for >=
compare_modification_times_strict(plat, md, rs_md) ==
    CASE plat = "unix" -> md.mtime > rs_md.mtime
      [] plat = "windows" -> md.mtime > rs_md.mtime
      [] OTHER -> TRUE

\* the three cfg variants of compare_modification_times
compare_modification_times(plat, md, rs_md) ==
    CASE plat = "unix" -> md.mtime >= rs_md.mtime
      [] plat = "windows" -> md.mtime >= rs_md.mtime
      [] OTHER -> TRUE

MetadataFaults == {"none", "rs_file", "file"}

\* needs_rebuild turning every error of the output's metadata into Ok(true)
needs_rebuild_any_error(fsys, f, rs_file, plat, fault) ==
    LET rs_md == metadata(fsys, rs_file, fault = "rs_file") IN
    IF rs_md.ok
    THEN LET md == metadata(fsys, f, fault = "file") IN
         IF md.ok THEN Ok(compare_modification_times(plat, md.val, rs_md.val))
         ELSE Err(md.err)
    ELSE Ok(TRUE)

needs_rebuild(fsys, f, rs_file, plat, fault) ==
    LET rs_md == metadata(fsys, rs_file, fault = "rs_file") IN
    IF rs_md.ok
    THEN LET md == metadata(fsys, f, fault = "file") IN
         IF md.ok THEN Ok(compare_modification_times(plat, md.val, rs_md.val))
         ELSE Err(md.err)
    ELSE IF rs_md.err = "NotFound" THEN Ok(TRUE)
         ELSE Err(rs_md.err)

\* the metadata calls needs_rebuild makes
needs_rebuild_calls(fsys, f, rs_file, fault) ==
    IF metadata(fsys, rs_file, fault = "rs_file").ok
    THEN << <<"metadata", rs_file>>, <<"metadata", f>> >>
    ELSE << <<"metadata", rs_file>> >>

---------------------------------------------------------------------------
(* remove_old_file (lib.rs 90-101) *)

\* remove_old_file tolerating NotFound only
remove_old_file_not_found_only(fsys, rs_file, outcome) ==
    LET r == remove_file(fsys, rs_file, outcome) IN
    IF r.res.ok THEN r
    ELSE IF r.res.err = "NotFound"
         THEN [res |-> Ok(<<>>), fs |-> r.fs]
         ELSE r

remove_old_file(fsys, rs_file, outcome) ==
    LET r == remove_file(fsys, rs_file, outcome) IN
    IF r.res.ok THEN r
    ELSE IF r.res.err \in {"NotFound", "PermissionDenied"}
         THEN [res |-> Ok(<<>>), fs |-> r.fs]
         ELSE r

---------------------------------------------------------------------------
(* make_read_only (lib.rs 147-152) *)

LockFaults == {"none", "metadata", "set_permissions"}

\* make_read_only with set_readonly(false)
make_read_only_writable(fsys, rs_file, fault) ==
    LET rs_md == metadata(fsys, rs_file, fault = "metadata") IN
    IF ~rs_md.ok THEN [res |-> Err(rs_md.err), fs |-> fsys]
    ELSE set_permissions(fsys, rs_file, FALSE, fault = "set_permissions")

make_read_only(fsys, rs_file, fault) ==
    LET rs_md == metadata(fsys, rs_file, fault = "metadata") IN
    IF ~rs_md.ok THEN [res |-> Err(rs_md.err), fs |-> fsys]
    ELSE set_permissions(fsys, rs_file, TRUE, fault = "set_permissions")

\* the calls make_read_only makes
make_read_only_calls(fsys, rs_file, fault) ==
    IF metadata(fsys, rs_file, fault = "metadata").ok
    THEN << <<"metadata", rs_file>>, <<"set_permissions", rs_file>> >>
    ELSE << <<"metadata", rs_file>> >>

---------------------------------------------------------------------------
(* Initial states: a root directory that may hold a.ext, a.rs and a        *)
(* directory d with b.ext, b.rs; sources are writable files with text      *)
(* "src", outputs were generated by an earlier build.                      *)

Sources == {FileA, FileB}
Outputs == {RsA, RsB}

SourceStates == {Absent} \cup {File(m, FALSE, "src") : m \in Times}
OutputStates == {Absent} \cup {File(m, ro, "gen") : m \in Times, ro \in BOOLEAN}

InitFileSystems ==
    {f \in [Paths -> {Absent, Dir} \cup SourceStates \cup OutputStates] :
        /\ f[Cwd] = Dir
        /\ f[DirD] = Dir
        /\ \A p \in Sources : f[p] \in SourceStates
        /\ \A p \in Outputs : f[p] \in OutputStates}

Init ==
    /\ fs \in InitFileSystems
    /\ platform \in Platforms
    /\ pc = "idle"
    /\ root_dir = Cwd
    /\ extension = "ext"
    /\ force_build = FALSE
    /\ queue = <<>>
    /\ file = <<>>
    /\ input_file = NoFileText
    /\ error = NoError
    /\ printed = <<>>
    /\ status = "none"
    /\ log = <<>>

---------------------------------------------------------------------------
(* The entry points (lib.rs 29-43): each calls perform_processing_or_die,  *)
(* which calls perform_processing.                                         *)

perform_processing_or_die(root, ext, force) ==
    /\ pc = "idle"
    /\ status = "none"
    /\ pc' = "files"
    /\ root_dir' = root
    /\ extension' = ext
    /\ force_build' = force
    /\ queue' = <<>>
    /\ file' = <<>>
    /\ input_file' = NoFileText
    /\ error' = NoError
    /\ printed' = <<>>
    /\ status' = "running"
    /\ log' = <<>>
    /\ UNCHANGED <<fs, platform>>

process_root == \E ext \in Extensions : perform_processing_or_die(Cwd, ext, FALSE)

process_root_unconditionally ==
    \E ext \in Extensions : perform_processing_or_die(Cwd, ext, TRUE)

process_dir ==
    \E path \in {DirD}, ext \in Extensions : perform_processing_or_die(path, ext, FALSE)

process_dir_unconditionally ==
    \E path \in {DirD}, ext \in Extensions : perform_processing_or_die(path, ext, TRUE)

\* error_line with the end column printed one-based, like the start column
error_line_end_col_one_based(e) ==
    LET start == line_col(e.file, e.span[1])
        end == line_col(e.file, e.span[2])
    IN <<"error", e.file.path, start[1] + 1, start[2] + 1, end[1] + 1, end[2] + 1,
         e.cause>>

\* lib.rs 51-57: the line println! prints for a Source error: the two ends of
\* the span mapped by line_col, start_line+1, start_col+1, end_line+1, end_col
error_line(e) ==
    LET start == line_col(e.file, e.span[1])
        end == line_col(e.file, e.span[2])
    IN <<"error", e.file.path, start[1] + 1, start[2] + 1, end[1] + 1, end[2],
         e.cause>>

\* die_output printing the error of an Io failure twice
die_output_twice(e) ==
    CASE e.kind = "Source" -> << error_line(e),
                                 <<"highlight", e.file.path, e.span>> >>
      [] e.kind = "Io" -> << <<"io", e.io>>, <<"io", e.io>> >>
      [] OTHER -> <<>>

\* what the match of perform_processing_or_die prints for a result (lib.rs 46-69)
die_output(e) ==
    CASE e.kind = "Source" -> << error_line(e),
                                 <<"highlight", e.file.path, e.span>> >>
      [] e.kind = "Io" -> << <<"io", e.io>> >>
      [] OTHER -> <<>>

\* die_status with the exit(1) of the Source arm left out
die_status_no_exit(e) == "returned"

\* die_status with exit(1) after the match, whatever the result
die_status_always_exit(e) == "exit1"

\* how perform_processing_or_die ends for a result: exit(1), or a normal return
die_status(e) == IF e.kind = "Source" THEN "exit1" ELSE "returned"

\* perform_processing returns the result e (Ok(()) at the end of the loop,
\* Err(e) through try!) and perform_processing_or_die matches on it
Return(e) ==
    /\ error' = e
    /\ printed' = printed \o die_output(e)
    /\ status' = die_status(e)
    /\ pc' = "idle"

\* perform_processing goes on
Continue(next) ==
    /\ pc' = next
    /\ UNCHANGED <<error, printed, status>>

\* what files can return for a tree: one result for each enumeration order
\* and each fault
ScanResults(fsys, dir, ext) ==
    {files(fsys, dir, ext, ord, faults) :
        ord \in Orders(fsys, dir), faults \in ScanFaults(fsys, dir)}

\* lib.rs 73: let files = try!(files(root_dir, extension))
scan_files ==
    /\ pc = "files"
    /\ \E r \in ScanResults(fs, root_dir, extension) :
          IF r.ok
          THEN /\ queue' = r.val
               /\ Continue("loop")
          ELSE /\ Return(IoError(r.err))
               /\ UNCHANGED queue
    /\ UNCHANGED <<fs, platform, root_dir, extension, force_build, file,
                   input_file, log>>

\* lib.rs 74, 87: the loop is over; perform_processing returns Ok(())
loop_end ==
    /\ pc = "loop"
    /\ queue = <<>>
    /\ Return(NoError)
    /\ UNCHANGED <<fs, platform, root_dir, extension, force_build, queue, file,
                   input_file, log>>

\* the condition with its operands swapped: needs_rebuild is always called
rebuild_condition_swapped(force, fsys, f, rs_file, plat, fault) ==
    LET r == needs_rebuild(fsys, f, rs_file, plat, fault) IN
    [res |-> IF r.ok THEN Ok(r.val \/ force) ELSE r,
     calls |-> needs_rebuild_calls(fsys, f, rs_file, fault)]

\* lib.rs 76: force_build || try!(needs_rebuild(&file, &rs_file)): the result
\* and the metadata calls made; needs_rebuild is not called when force_build
rebuild_condition(force, fsys, f, rs_file, plat, fault) ==
    IF force THEN [res |-> Ok(TRUE), calls |-> <<>>]
    ELSE [res |-> needs_rebuild(fsys, f, rs_file, plat, fault),
          calls |-> needs_rebuild_calls(fsys, f, rs_file, fault)]

\* lib.rs 74-76: the next file, and the condition of the if
loop_next ==
    /\ pc = "loop"
    /\ queue # <<>>
    /\ LET f == Head(queue)
           rs_file == with_extension(f, "rs")
       IN /\ file' = f
          /\ queue' = Tail(queue)
          /\ \E fault \in MetadataFaults :
                LET c == rebuild_condition(force_build, fs, f, rs_file, platform, fault) IN
                IF ~c.res.ok
                THEN /\ Return(IoError(c.res.err))
                     /\ log' = log \o c.calls
                ELSE /\ Continue(IF c.res.val THEN "remove" ELSE "loop")
                     /\ log' = log \o c.calls
                               \o << <<IF c.res.val THEN "Rebuild" ELSE "Skip", f>> >>
    /\ UNCHANGED <<fs, platform, root_dir, extension, force_build, input_file>>

\* lib.rs 77: try!(remove_old_file(&rs_file))
remove_step ==
    /\ pc = "remove"
    /\ LET rs_file == with_extension(file, "rs") IN
       \E outcome \in RemoveOutcomes(fs, rs_file, platform) :
          LET r == remove_old_file(fs, rs_file, outcome) IN
          /\ fs' = r.fs
          /\ log' = Append(log, <<"remove_file", rs_file>>)
          /\ IF r.res.ok THEN Continue("load")
             ELSE Return(IoError(r.res.err))
    /\ UNCHANGED <<platform, root_dir, extension, force_build, queue, file,
                   input_file>>

\* lib.rs 79: let input_file = try!(FileText::from_path(file))
load_step ==
    /\ pc = "load"
    /\ \E fault \in BOOLEAN :
          LET r == FileText_from_path(fs, file, fault) IN
          /\ log' = Append(log, <<"from_path", file>>)
          /\ IF r.ok THEN Continue("create") /\ input_file' = r.val
             ELSE Return(IoError(r.err)) /\ UNCHANGED input_file
    /\ UNCHANGED <<fs, platform, root_dir, extension, force_build, queue, file>>

\* lib.rs 80: let mut output_file = try!(fs::File::create(&rs_file))
create_step ==
    /\ pc = "create"
    /\ LET rs_file == with_extension(file, "rs") IN
       \E outcome \in CreateOutcomes(fs, rs_file), t \in Times :
          LET r == file_create(fs, rs_file, outcome, t) IN
          /\ fs' = r.fs
          /\ log' = Append(log, <<"create", rs_file>>)
          /\ IF r.res.ok THEN Continue("process")
             ELSE Return(IoError(r.res.err))
    /\ UNCHANGED <<platform, root_dir, extension, force_build, queue, file,
                   input_file>>

Causes == {"bad token"}
Spans == {<<4, 7>>, <<1, 6>>}

\* lib.rs 82: try!(processor.process(input_file, &mut output_file)), returning Ok(())
process_ok ==
    /\ pc = "process"
    /\ LET rs_file == with_extension(file, "rs") IN
       \E t \in fs[rs_file].mtime..MaxTime :
          /\ fs' = file_write(fs, rs_file, Transform(input_file.text), t)
          /\ log' = Append(log, <<"process", rs_file>>)
    /\ Continue("lock")
    /\ UNCHANGED <<platform, root_dir, extension, force_build, queue, file, input_file>>

\* process_err with the result of the processor dropped instead of returned
\* through try!: the run goes on to make_read_only
process_err_ignored ==
    /\ pc = "process"
    /\ LET rs_file == with_extension(file, "rs") IN
       \E t \in fs[rs_file].mtime..MaxTime, bytes \in PartialOutputs :
          /\ fs' = file_write(fs, rs_file, bytes, t)
          /\ log' = Append(log, <<"process", rs_file>>)
    /\ Continue("lock")
    /\ UNCHANGED <<platform, root_dir, extension, force_build, queue, file,
                   input_file>>

\* lib.rs 82: the processor returns Err(Error::Source(..)) or Err(Error::Io(..)),
\* having written some of its output or none
process_err ==
    /\ pc = "process"
    /\ LET rs_file == with_extension(file, "rs") IN
       \E t \in fs[rs_file].mtime..MaxTime, bytes \in PartialOutputs :
          /\ fs' = file_write(fs, rs_file, bytes, t)
          /\ log' = Append(log, <<"process", rs_file>>)
    /\ \/ \E c \in Causes, s \in Spans : Return(SourceError(input_file, c, s))
       \/ Return(IoError("Other"))
    /\ UNCHANGED <<platform, root_dir, extension, force_build, queue, file,
                   input_file>>

\* lib.rs 84: try!(make_read_only(&rs_file))
lock_step ==
    /\ pc = "lock"
    /\ LET rs_file == with_extension(file, "rs") IN
       \E fault \in LockFaults :
          LET r == make_read_only(fs, rs_file, fault) IN
          /\ fs' = r.fs
          /\ log' = log \o make_read_only_calls(fs, rs_file, fault)
          /\ IF r.res.ok THEN Continue("loop")
             ELSE Return(IoError(r.res.err))
    /\ UNCHANGED <<platform, root_dir, extension, force_build, queue, file,
                   input_file>>

---------------------------------------------------------------------------
(* Between runs a source file is edited: its modification time moves to    *)
(* the present, and what the finished run showed is gone.                  *)

edit_source ==
    /\ pc = "idle"
    /\ status = "none"
    /\ \E f \in Sources :
          /\ Exists(fs, f)
          /\ \E t \in fs[f].mtime..MaxTime : fs' = [fs EXCEPT ![f].mtime = t]
    /\ UNCHANGED <<platform, pc, root_dir, extension, force_build, queue, file,
                   input_file, error, printed, status, log>>

\* lib.rs 62, 70: the process has exited, or perform_processing_or_die has
\* returned to the build script: of the run only the file system remains
end_of_run ==
    /\ pc = "idle"
    /\ status \in {"returned", "exit1"}
    /\ status' = "none"
    /\ root_dir' = Cwd
    /\ extension' = "ext"
    /\ force_build' = FALSE
    /\ queue' = <<>>
    /\ file' = <<>>
    /\ input_file' = NoFileText
    /\ error' = NoError
    /\ printed' = <<>>
    /\ log' = <<>>
    /\ UNCHANGED <<fs, platform, pc>>

Next ==
    \/ process_root
    \/ process_root_unconditionally
    \/ process_dir
    \/ process_dir_unconditionally
    \/ scan_files
    \/ loop_end
    \/ loop_next
    \/ remove_step
    \/ load_step
    \/ create_step
    \/ process_ok
    \/ process_err
    \/ lock_step
    \/ end_of_run
    \/ edit_source

Spec == Init /\ [][Next]_vars

---------------------------------------------------------------------------
(* The scan on its own, over trees with every kind of entry: files with    *)
(* the extension, with the extension in another case, with another         *)
(* extension and with none, directories with and without the extension,    *)
(* and entries that are neither files nor directories, three levels deep.  *)

\* an entry that is neither a file nor a directory (file_type: a symlink)
Special == [kind |-> "other", mtime |-> 0, readonly |-> FALSE, content |-> ""]

FileN == << <<"n", None>> >>
FileC == DirD \o << <<"c", "EXT">> >>
DirE == DirD \o << <<"e", "ext">> >>
FileF == DirE \o << <<"f", "ext">> >>
RsF == DirE \o << <<"f", "rs">> >>

ScanPaths == {Cwd, FileA, FileN, DirD, FileB, FileC, DirE, FileF, RsF}

\* what each path of a scanned tree can be
ScanKinds(p) ==
    CASE p = Cwd -> {Dir}
      [] p = FileA -> {Absent, Dir, File(0, FALSE, "src")}
      [] p = DirD -> {Absent, Dir, Special}
      [] p = DirE -> {Absent, Dir, File(0, FALSE, "src")}
      [] p = FileF -> {Absent, Special, File(0, FALSE, "src")}
      [] OTHER -> {Absent, File(0, FALSE, "src")}

ScanTrees ==
    {f \in [ScanPaths -> {Absent, Dir, Special, File(0, FALSE, "src")}] :
        \A p \in ScanPaths :
            /\ f[p] \in ScanKinds(p)
            /\ (p # Cwd /\ f[p] # Absent) => f[Parent(p)] = Dir}

InitScan ==
    /\ fs \in ScanTrees
    /\ platform \in Platforms
    /\ pc = "idle"
    /\ root_dir = Cwd
    /\ extension = "ext"
    /\ force_build = FALSE
    /\ queue = <<>>
    /\ file = <<>>
    /\ input_file = NoFileText
    /\ error = NoError
    /\ printed = <<>>
    /\ status = "none"
    /\ log = <<>>

\* an entry point is called and the scan runs
NextScan ==
    \/ process_root
    \/ process_root_unconditionally
    \/ process_dir
    \/ process_dir_unconditionally
    \/ scan_files

SpecScan == InitScan /\ [][NextScan]_vars

---------------------------------------------------------------------------
(* Properties *)

Last(s) == s[Len(s)]
Range(s) == {s[i] : i \in DOMAIN s}
rs_of(f) == with_extension(f, "rs")

\* the run has just decided about a file, and nothing has happened since
JustDecided == pc \in {"remove", "loop"} /\ log # <<>> /\ Last(log)[1] \in {"Rebuild", "Skip"}

\* the run is over
Finished == pc = "idle" /\ status \in {"returned", "exit1"}

\* the files the run has decided about
Decided == {e[2] : e \in {x \in Range(log) : x[1] \in {"Rebuild", "Skip"}}}

\* the decision of section 4.2 for a non-forced run
StatedDecision(fsys, f) ==
    IF ~Exists(fsys, rs_of(f)) THEN "Rebuild"
    ELSE IF fsys[f].mtime >= fsys[rs_of(f)].mtime THEN "Rebuild"
    ELSE "Skip"

\* C1 as stated: in a non-forced run the decision is Rebuild when the output is
\* missing or the source's mtime is >= the output's, and Skip otherwise
C1_DecisionAsStated ==
    (JustDecided /\ ~force_build) => Last(log)[1] = StatedDecision(fs, Last(log)[2])

\* C1 amended: that is the decision of the unix and windows builds; the build
\* for any other platform decides Rebuild whatever the modification times
C1_Decision ==
    (JustDecided /\ ~force_build) =>
        Last(log)[1] = IF platform \in {"unix", "windows"}
                       THEN StatedDecision(fs, Last(log)[2])
                       ELSE "Rebuild"

C1_Witness ==
    /\ JustDecided /\ ~force_build /\ platform = "unix"
    /\ Last(log) = <<"Skip", FileA>>
    /\ fs[FileA].mtime < fs[RsA].mtime

\* C2 as stated: in a forced run no file is skipped and the metadata of an
\* output is never read
C2_ForcedAsStated ==
    force_build =>
        \A e \in Range(log) : e[1] # "Skip" /\ ~(e[1] = "metadata" /\ e[2] \in Outputs)

\* C2 amended: in a forced run every file taken from the list is decided Rebuild
\* and reaches the removal step, whatever the modification times and whether or
\* not the output exists; needs_rebuild is not called, and the only read of an
\* output's metadata is the one of make_read_only, right after the processor
\* has written that output
C2_Forced ==
    (force_build /\ pc # "files") =>
        /\ \A i \in DOMAIN log :
              /\ log[i][1] # "Skip"
              /\ log[i][1] = "metadata" => (i > 1 /\ log[i - 1] = <<"process", log[i][2]>>)
        /\ file # <<>> =>
              /\ <<"Rebuild", file>> \in Range(log)
              /\ pc # "remove" => <<"remove_file", rs_of(file)>> \in Range(log)
        /\ (Finished /\ error.kind = "None") =>
              \A f \in Decided : <<"set_permissions", rs_of(f)>> \in Range(log)

C2_Witness ==
    /\ force_build /\ Finished /\ error.kind = "None"
    /\ extension = "ext"
    /\ Decided = {FileA, FileB}
    /\ fs[RsA].mtime > fs[FileA].mtime

\* C3: after a successful run every discovered source has an output that is
\* at least as new as the source and read-only
C3_OutputsFreshAndLocked ==
    (Finished /\ error.kind = "None") =>
        \A f \in Decided :
            /\ Exists(fs, rs_of(f))
            /\ fs[rs_of(f)].mtime >= fs[f].mtime
            /\ fs[rs_of(f)].readonly

\* the output of f holds an unfinished text: the processor failed on it
Leftover(fsys, f) == Exists(fsys, rs_of(f)) /\ fsys[rs_of(f)].content \in PartialOutputs

\* the run ended in the call of the processor
ProcessFailed == Finished /\ error.kind # "None" /\ log # <<>> /\ Last(log)[1] = "process"

\* C4: the output a failed processor leaves is not read-only, and a later run
\* does not skip it
C4_LeftoverCleanedUp ==
    /\ ProcessFailed => (Exists(fs, rs_of(file)) /\ ~fs[rs_of(file)].readonly)
    /\ \A e \in Range(log) : e[1] = "Skip" => ~Leftover(fs, e[2])

\* C5: a run that ends in an Io failure while regenerating a file whose output
\* is read-only ends in a fault of the environment, not in a refusal by the
\* read-only output
C5_ReadOnlyOutputRegenerates ==
    (/\ Finished /\ error.kind = "Io" /\ file # <<>>
     /\ <<"remove_file", rs_of(file)>> \in Range(log)
     /\ Exists(fs, rs_of(file)) /\ fs[rs_of(file)].readonly)
    => error.io = "Other"

\* the diagnostics printed: the error lines of Source errors and Io errors
Diagnostics == {i \in DOMAIN printed : printed[i][1] \in {"error", "io"}}

\* no entry of the log is about f or its output
Untouched(f) == \A e \in Range(log) : e[2] \notin {f, rs_of(f)}

\* C6: on a Source error the run prints the diagnostic and its highlight and
\* exits with status 1; the files still in the list have not been decided about
\* or touched, nothing changes in the file system that the log does not show
\* at the output of the current file, and the next step belongs to another run
C6_SourceErrorStops ==
    [][/\ \A p \in Paths :
             (fs'[p] # fs[p] /\ pc # "idle") =>
                (log' # <<>> /\ Last(log')[2] = p /\ p = rs_of(file) /\ file' = file)
       /\ error'.kind = "Source" =>
             /\ status' = "exit1" /\ pc' = "idle"
             /\ Len(printed') = 2
             /\ printed'[1][1] = "error" /\ printed'[1][2] = error'.file.path
             /\ Last(printed'[1]) = error'.cause
             /\ printed'[2] = <<"highlight", error'.file.path, error'.span>>
             /\ error'.file.path = file'
             /\ \A f \in Range(queue') : f # file' /\ Untouched(f)'
       /\ error.kind = "Source" => (log' = <<>> /\ printed' = <<>>)
      ]_vars

C6_Witness ==
    /\ status = "exit1" /\ error.kind = "Source"
    /\ queue # <<>>
    /\ Len(printed) = 2

\* C7: a run prints at most one diagnostic: none while nothing has failed, one
\* for the failure that ends it, and after that failure the run takes no step
C7_OneDiagnostic ==
    [][/\ Cardinality(Diagnostics') <= 1
       /\ error'.kind = "None" => Diagnostics' = {}
       /\ error'.kind # "None" => (Cardinality(Diagnostics') = 1 /\ pc' = "idle")
       /\ error.kind # "None" => (log' = <<>> /\ printed' = <<>> /\ error'.kind = "None")
      ]_vars

C7_Witness ==
    /\ Finished /\ error.kind = "Io" /\ Cardinality(Diagnostics) = 1
    /\ queue # <<>> /\ log # <<>>

\* C8: a run that ends in an Io failure does not end with the status of a
\* clean pass
C8_IoFailureStatus ==
    (Finished /\ error.kind = "Io") => status # "returned"

\* C9: a run without a failure prints nothing and returns normally
C9_CleanPass ==
    (Finished /\ error.kind = "None") => (printed = <<>> /\ status = "returned")

C9_Witness ==
    /\ Finished /\ error.kind = "None"
    /\ Decided = {FileA, FileB}
    /\ \A e \in Range(log) : e[1] # "Rebuild"

\* the run has just locked the output of the current file
JustLocked == pc = "loop" /\ log # <<>> /\ Last(log) = <<"set_permissions", rs_of(file)>>

\* C10: after a successful regeneration the output exists, holds what the
\* processor wrote for the loaded input, and is read-only
C10_RegeneratedOutput ==
    JustLocked =>
        /\ Exists(fs, rs_of(file))
        /\ fs[rs_of(file)].kind = "file"
        /\ fs[rs_of(file)].content = Transform(input_file.text)
        /\ fs[rs_of(file)].readonly

C10_Witness ==
    /\ JustLocked /\ file = FileA
    /\ fs[RsA].content = "gen" /\ fs[RsA].readonly

\* the calls that regenerate an output
RegenerationOps == {"remove_file", "from_path", "create", "process", "set_permissions"}

\* the run has made no call that regenerates the output of f
NotRegenerated(f) ==
    \A e \in Range(log) : e[1] \in RegenerationOps => e[2] \notin {f, rs_of(f)}

\* C11: in a non-forced run of a build that compares modification times, a file
\* whose output is newer than the source is skipped and no call touches it; a
\* file whose output exists and is not newer is decided Rebuild, and then only
\* a fault of the environment keeps the run from removing and recreating the
\* output and leaving it read-only
C11_SkipThenRegenerate ==
    ~force_build =>
        /\ (/\ JustDecided /\ platform \in {"unix", "windows"}
            /\ Exists(fs, rs_of(Last(log)[2]))
            /\ fs[Last(log)[2]].mtime < fs[rs_of(Last(log)[2])].mtime)
           => Last(log)[1] = "Skip"
        /\ \A e \in Range(log) : e[1] = "Skip" => NotRegenerated(e[2])
        /\ (/\ Finished /\ extension = "ext" /\ file # <<>>
            /\ <<"Rebuild", file>> \in Range(log)
            /\ error.kind = "Io" /\ Last(log)[1] # "process")
           => error.io = "Other"
        /\ (JustLocked /\ extension = "ext") =>
              /\ <<"remove_file", rs_of(file)>> \in Range(log)
              /\ <<"create", rs_of(file)>> \in Range(log)

\* the regular files below dir, at any depth, whose extension is ext; every
\* directory on the way from dir to the file is a directory
Matching(fsys, dir, ext) ==
    {p \in DOMAIN fsys :
        /\ Len(p) > Len(dir) /\ SubSeq(p, 1, Len(dir)) = dir
        /\ fsys[p].kind = "file"
        /\ path_extension(p) = ext
        /\ \A k \in Len(dir)..(Len(p) - 1) : fsys[SubSeq(p, 1, k)].kind = "dir"}

\* the scan of the run has succeeded and the loop has not begun
JustScanned == pc = "loop" /\ file = <<>> /\ log = <<>>

\* C12: a scan that succeeds returns the regular files below the root whose
\* extension equals the target, at every depth, each once, and nothing else
C12_ScanResult ==
    JustScanned =>
        /\ Range(queue) = Matching(fs, root_dir, extension)
        /\ Len(queue) = Cardinality(Matching(fs, root_dir, extension))

C12_Witness ==
    /\ JustScanned /\ root_dir = Cwd /\ extension = "ext"
    /\ fs[FileA].kind = "dir" /\ fs[FileN].kind = "file" /\ fs[FileC].kind = "file"
    /\ fs[FileF].kind = "file" /\ fs[RsF].kind = "file" /\ fs[FileB].kind = "file"
    /\ Range(queue) = {FileB, FileF}

\* the run has ended with a failure before any file was taken from the list
ScanFailed == Finished /\ error.kind # "None" /\ file = <<>>

\* C13: a run whose scan has failed has ended with that Io failure and has made
\* no call on any file: nothing was decided, removed, loaded, created, written
\* or locked; and on the tree of such a run a scan in which a directory cannot
\* be read, or an entry or its type cannot be determined, fails and returns no
\* file, whatever the enumeration order and whatever matching files come
\* before the failing entry
C13_ScanFailure ==
    ScanFailed =>
        /\ error.kind = "Io"
        /\ queue = <<>> /\ log = <<>> /\ input_file = NoFileText
        /\ printed = << <<"io", error.io>> >>
        /\ \A ord \in Orders(fs, root_dir) :
              \A faults \in ScanFaults(fs, root_dir) \ {NoScanFault} :
                 LET r == files(fs, root_dir, extension, ord, faults) IN
                 ~r.ok /\ r.val = <<>>

C13_Witness ==
    /\ ScanFailed /\ error.kind = "Io" /\ error.io = "Other"
    /\ root_dir = Cwd /\ extension = "ext"
    /\ fs[FileA].kind = "file" /\ fs[FileB].kind = "file"

\* the run ended in the removal of the old output
RemovalFailed == Finished /\ error.kind # "None" /\ log # <<>> /\ Last(log)[1] = "remove_file"

\* C14: a removal that ends the run failed with an error that is neither
\* NotFound nor PermissionDenied; the run ended with an Io failure, and the
\* source was not loaded and the output not created; after any other removal
\* the run goes on to load the source, with no error
C14_RemovalErrors ==
    /\ RemovalFailed =>
          /\ error.kind = "Io"
          /\ error.io \notin {"NotFound", "PermissionDenied"}
          /\ input_file.path # file
          /\ \A e \in Range(log) :
                e[1] \in {"from_path", "create", "process"} => e[2] \notin {file, rs_of(file)}
    /\ pc = "load" =>
          /\ Last(log) = <<"remove_file", rs_of(file)>>
          /\ error.kind = "None" /\ status = "running"

\* the removal was refused with PermissionDenied, the output is still there,
\* and the run goes on
C14_Witness ==
    /\ pc = "load" /\ platform = "windows"
    /\ Exists(fs, rs_of(file)) /\ fs[rs_of(file)].readonly
    /\ error.kind = "None"

\* the run ended in a metadata call of needs_rebuild
DecisionFailed ==
    /\ Finished /\ error.kind # "None" /\ log # <<>> /\ Last(log)[1] = "metadata"
    /\ ~(Len(log) >= 2 /\ log[Len(log) - 1][1] = "process")

\* C15: in a non-forced run a decision is made either after both metadata were
\* read, or after the read of the output's metadata found no output, and then
\* it is Rebuild; a run that ends in a metadata call of needs_rebuild ends with
\* an Io failure that is not the NotFound of the output, and has decided
\* nothing about the file and has not removed, created or written its output
C15_MetadataErrors ==
    ~force_build =>
        /\ JustDecided =>
              LET n == Len(log)
                  f == Last(log)[2]
              IN \/ /\ n >= 3
                    /\ log[n - 2] = <<"metadata", rs_of(f)>>
                    /\ log[n - 1] = <<"metadata", f>>
                    /\ Exists(fs, rs_of(f)) /\ Exists(fs, f)
                 \/ /\ n >= 2
                    /\ log[n - 1] = <<"metadata", rs_of(f)>>
                    /\ ~Exists(fs, rs_of(f))
                    /\ Last(log)[1] = "Rebuild"
        /\ DecisionFailed =>
              /\ error.kind = "Io" /\ error.io # "NotFound"
              /\ Last(log)[2] \in {file, rs_of(file)}
              /\ file \notin Decided
              /\ \A e \in Range(log) :
                    e[1] \in RegenerationOps => e[2] \notin {file, rs_of(file)}

\* the read of the output's metadata failed for an output that exists
C15_Witness ==
    /\ ~force_build /\ DecisionFailed /\ extension = "ext"
    /\ Last(log) = <<"metadata", rs_of(file)>>
    /\ Exists(fs, rs_of(file))
    /\ \E e \in Range(log) : e[1] = "Rebuild"

\* the call that comes right before call i of the log in a regeneration
StepBefore(i) ==
    CASE log[i][1] = "remove_file" ->
            i > 1 /\ log[i - 1][1] = "Rebuild" /\ rs_of(log[i - 1][2]) = log[i][2]
      [] log[i][1] = "from_path" ->
            i > 1 /\ log[i - 1] = <<"remove_file", rs_of(log[i][2])>>
      [] log[i][1] = "create" ->
            i > 1 /\ log[i - 1][1] = "from_path" /\ rs_of(log[i - 1][2]) = log[i][2]
      [] log[i][1] = "process" ->
            i > 1 /\ log[i - 1] = <<"create", log[i][2]>>
      [] log[i][1] = "set_permissions" ->
            i > 2 /\ log[i - 1] = <<"metadata", log[i][2]>>
                  /\ log[i - 2] = <<"process", log[i][2]>>
      [] OTHER -> TRUE

\* C16: the calls of a regeneration come in the order remove, load, create,
\* process, make_read_only, each right after the one before it (a step appends
\* at most three entries to the log, so every entry is among the last three
\* in the state after the step that made the call); a run that
\* has failed takes no further step; a call follows the processor only when
\* the processor wrote its whole output, so no output is locked, or read-only,
\* with an unfinished text
C16_StepOrder ==
    /\ \A i \in DOMAIN log : i > Len(log) - 3 => StepBefore(i)
    /\ error.kind # "None" => pc = "idle"
    /\ \A i \in DOMAIN log :
          (log[i][1] = "process" /\ i < Len(log)) =>
              /\ fs[log[i][2]].content \notin PartialOutputs
              /\ log[i + 1] = <<"metadata", log[i][2]>>
    /\ \A p \in DOMAIN fs :
          (fs[p].kind = "file" /\ fs[p].readonly) => fs[p].content \notin PartialOutputs

\* the processor failed after the remove, load and create steps, and the
\* output it left is not locked
C16_Witness ==
    /\ ProcessFailed /\ Len(log) >= 4
    /\ log[Len(log) - 1][1] = "create" /\ log[Len(log) - 2][1] = "from_path"
    /\ log[Len(log) - 3][1] = "remove_file"
    /\ fs[rs_of(file)].content = "part" /\ ~fs[rs_of(file)].readonly
    /\ \E e \in Range(log) : e[1] = "set_permissions"

RECURSIVE BytesBefore(_, _)
\* the number of bytes of the first k lines
BytesBefore(lens, k) == IF k = 0 THEN 0 ELSE BytesBefore(lens, k - 1) + lens[k]

\* zero-based line l and column c are the position of the byte offset: the
\* offset is c bytes into line l, and within that line unless it is the last
IsPosition(lens, offset, l, c) ==
    /\ l \in 0..(Len(lens) - 1) /\ c >= 0
    /\ offset = BytesBefore(lens, l) + c
    /\ (l + 1 < Len(lens)) => c < lens[l + 1]

\* the zero-based line and column of a byte offset
Position(lens, offset) ==
    CHOOSE lc \in (0..(Len(lens) - 1)) \X (0..BytesBefore(lens, Len(lens))) :
        IsPosition(lens, offset, lc[1], lc[2])

\* C17: for a Source error with span (s, e) the run prints one line with the
\* path, the line of s plus one, the column of s plus one, the line of e plus
\* one, the column of e as it is, and the message, then the highlight of the
\* same span, and then exits with status 1
C17_DiagnosticLine ==
    (Finished /\ error.kind = "Source") =>
        LET lens == Lines(error.file.text)
            start == Position(lens, error.span[1])
            end == Position(lens, error.span[2])
        IN /\ IsPosition(lens, error.span[1], start[1], start[2])
           /\ IsPosition(lens, error.span[2], end[1], end[2])
           /\ printed = << <<"error", error.file.path, start[1] + 1, start[2] + 1,
                             end[1] + 1, end[2], error.cause>>,
                           <<"highlight", error.file.path, error.span>> >>
           /\ status = "exit1"

\* span (4, 7) of a.ext: line 2 column 1 to line 3 column 0
C17_Witness ==
    /\ Finished /\ error.kind = "Source" /\ error.span = <<4, 7>>
    /\ printed[1] = <<"error", FileA, 2, 1, 3, 0, "bad token">>
    /\ printed[2][1] = "highlight"

\* the source files the scan of the run has returned
Discovered == Range(queue) \cup Decided \cup (IF file = <<>> THEN {} ELSE {file})

\* C18: no call of a run removes, truncates, writes or changes the permissions
\* of a source file the scan returned, whatever the target extension, and
\* each such file is still there
C18_SourcesNotModified ==
    /\ \A e \in Range(log) :
          e[1] \in {"remove_file", "create", "process", "set_permissions"} =>
              e[2] \notin Discovered
    /\ \A f \in Discovered : Exists(fs, f) /\ fs[f].kind = "file"

\* what the non-forced run that follows a finished run, with nothing changed
\* in between, decides about f: the condition of lib.rs 76 on the file system
\* the finished run left
NextDecision(f) == rebuild_condition(FALSE, fs, f, rs_of(f), platform, "none").res

\* the run has finished without a failure and was not forced
Converging == Finished /\ error.kind = "None" /\ ~force_build

====
